---------------------------- MODULE Spec2Model ----------------------------
(***************************************************************************)
(* Model of automat.py: a cellular automaton whose cells play a bidding    *)
(* prisoner's dilemma against their 8 grid neighbours.                     *)
(*                                                                         *)
(* A Python object is identified with the grid slot that holds it: every   *)
(* slot holds its own object (Grid.__init__ deep-copies the fill, and      *)
(* get_grid_from_file builds one object per slot), so "cell1 == cell2"     *)
(* (object identity, no __eq__ is defined) is equality of slots.           *)
(*                                                                         *)
(* A cell is a record.  attrs says whether Cell.__init__ ran, i.e. whether *)
(* the object has the attributes value and bid; TitForTat.__init__ does    *)
(* not call it.  The fields value and bid of a cell without attrs, and     *)
(* last_other_bid of a cell that is no TitForTat, are placeholders that no *)
(* definition reads.  An exception is the name of its class in an err      *)
(* field, "none" when nothing was raised.                                  *)
(***************************************************************************)
EXTENDS Integers, Sequences, FiniteSets

VARIABLES
    height,      \* Grid.height
    width,       \* Grid.width
    grid,        \* Grid.grid: the flat list, slot -> cell
    start,       \* history: the Grid constructor's arguments, and the grid play() was
                 \* entered with (the grid as constructed when no driver runs)
    last,        \* history: what the latest Trial.play (or Grid method) call did
    pc,          \* where the driver play() is: "idle", "visit", "returned", "raised"
    num_rounds,  \* play's argument
    round_i,     \* play's loop variable
    row,         \* traverse_grid's r
    col,         \* traverse_grid's c
    todo,        \* positions of the shuffled neighbour list not yet iterated
    ncalls,      \* history: trial.play calls issued by the driver (Grid.set calls of a Grid user)
    result       \* what play() returned

vars == <<height, width, grid, start, last, pc, num_rounds, round_i, row, col, todo, ncalls, result>>

driver == <<pc, num_rounds, round_i, row, col, todo, ncalls, result>>

----------------------------------------------------------------------------
(* Bounds of the model. *)

\* largest value a cell is constructed with
MaxInitValue == 2
\* largest bid parameter a cell is constructed with
MaxBid == 2
\* a trial is not taken when it would raise a value above this
MaxValue == 4
\* width of the one-row grid whose cells the trial-level specification pairs
NumCells == 2
\* largest num_rounds the driver is run with
MaxRounds == 2
\* largest number of Grid.set calls a Grid user makes
MaxSets == 1
\* num_rounds of the end-to-end scenario
ScenarioRounds == 5

----------------------------------------------------------------------------
(* class Params *)

FRAUD_REWARD == 1
FRAUD_FINE == 1
INITIAL_CELL_VALUE == 10
DEFAULT_BID == 1

Max(a, b) == IF a >= b THEN a ELSE b

----------------------------------------------------------------------------
(* The Cell classes. *)

\* Cell.__init__(value, bid) run by the subclass kind
Cell(kind, value, bid) ==
    [kind |-> kind, attrs |-> TRUE, value |-> value, bid |-> bid, last_other_bid |-> 0]

AlwaysBid(value, bid) == Cell("AlwaysBid", value, bid)

AlwaysFraud(value, bid) == Cell("AlwaysFraud", value, bid)

\* DeadCell.__init__: super().__init__(0), the bid is the default
DeadCell == Cell("DeadCell", 0, DEFAULT_BID)

\* TitForTat.__init__ sets last_other_bid only: the object has no value and no bid
TitForTat ==
    [kind |-> "TitForTat", attrs |-> FALSE, value |-> 0, bid |-> 0, last_other_bid |-> 1]

\* reading cell.value or cell.bid
HasAttr(cell) == cell.attrs

\* suggest_bid: [err, bid]
suggest_bid(cell) ==
    CASE cell.kind = "AlwaysBid" -> [err |-> "none", bid |-> cell.bid]
      [] cell.kind = "AlwaysFraud" -> [err |-> "none", bid |-> 0]
      [] cell.kind = "TitForTat" ->
            IF cell.last_other_bid # 0
            THEN IF HasAttr(cell) THEN [err |-> "none", bid |-> cell.bid]
                                  ELSE [err |-> "AttributeError", bid |-> 0]
            ELSE [err |-> "none", bid |-> 0]
      \* Cell.suggest_bid: "raise NotImplemented" raises TypeError
      [] OTHER -> [err |-> "TypeError", bid |-> 0]

\* remember_play: the cell afterwards
remember_play(cell, my_bid, other_bid) ==
    IF cell.kind = "TitForTat" THEN [cell EXCEPT !.last_other_bid = other_bid] ELSE cell

----------------------------------------------------------------------------
(* The payoff functions. *)

\* the names bound at module level when a payoff function runs
Globals ==
    {"random", "copy", "Params", "Cell", "AlwaysBid", "AlwaysFraud", "DeadCell",
     "TitForTat", "reward_mutual", "reward_one_fraud", "fine_both_fraud", "Trial",
     "Grid", "get_grid_from_file", "play"}

\* mutant of reward_mutual: each cell gains the other's bid only
reward_mutual_swapped(cell1, cell2, bid1, bid2) ==
    [cell1 |-> [cell1 EXCEPT !.value = @ + bid2],
     cell2 |-> [cell2 EXCEPT !.value = @ + bid1]]

\* reward_mutual: both cells gain bid1 + bid2
reward_mutual(cell1, cell2, bid1, bid2) ==
    [cell1 |-> [cell1 EXCEPT !.value = @ + bid1 + bid2],
     cell2 |-> [cell2 EXCEPT !.value = @ + bid1 + bid2]]

\* reward_one_fraud: "cell.value += other_bid + params.FRAUD_REWARD"; the
\* name looked up is params, the class is Params
reward_one_fraud(cell, other_bid) ==
    IF ~HasAttr(cell) THEN [err |-> "AttributeError", cell |-> cell]
    ELSE IF "params" \in Globals
         THEN [err |-> "none",
               cell |-> [cell EXCEPT !.value = @ + other_bid + FRAUD_REWARD]]
         ELSE [err |-> "NameError", cell |-> cell]

\* mutant of fine_both_fraud: the fine is not clamped at 0
fine_both_fraud_unclamped(cell1, cell2) ==
    [cell1 |-> [cell1 EXCEPT !.value = @ - FRAUD_FINE],
     cell2 |-> [cell2 EXCEPT !.value = @ - FRAUD_FINE]]

\* mutant of fine_both_fraud: only cell1 is fined
fine_both_fraud_first_only(cell1, cell2) ==
    [cell1 |-> [cell1 EXCEPT !.value = Max(@ - FRAUD_FINE, 0)],
     cell2 |-> cell2]

\* fine_both_fraud: both cells lose FRAUD_FINE, not below 0
fine_both_fraud(cell1, cell2) ==
    [cell1 |-> [cell1 EXCEPT !.value = Max(@ - FRAUD_FINE, 0)],
     cell2 |-> [cell2 EXCEPT !.value = Max(@ - FRAUD_FINE, 0)]]

----------------------------------------------------------------------------
(* class Trial, with the default payoff functions. *)

\* mutant of bid_cell: the bid is refused unless value - bid > 0
bid_cell_strict(cell) ==
    LET s == suggest_bid(cell) IN
    IF s.err # "none"
    THEN [err |-> s.err, cell |-> cell, bid |-> 0, proposed |-> <<>>, before |-> cell]
    ELSE IF ~HasAttr(cell)
    THEN [err |-> "AttributeError", cell |-> cell, bid |-> 0,
          proposed |-> <<s.bid>>, before |-> cell]
    ELSE IF cell.value - s.bid > 0
    THEN [err |-> "none", cell |-> [cell EXCEPT !.value = @ - s.bid], bid |-> s.bid,
          proposed |-> <<s.bid>>, before |-> cell]
    ELSE [err |-> "none", cell |-> cell, bid |-> 0,
          proposed |-> <<s.bid>>, before |-> cell]

\* mutant of bid_cell: a cell that cannot afford its bid bids all it has
bid_cell_partial(cell) ==
    LET s == suggest_bid(cell) IN
    IF s.err # "none"
    THEN [err |-> s.err, cell |-> cell, bid |-> 0, proposed |-> <<>>, before |-> cell]
    ELSE IF ~HasAttr(cell)
    THEN [err |-> "AttributeError", cell |-> cell, bid |-> 0,
          proposed |-> <<s.bid>>, before |-> cell]
    ELSE IF cell.value - s.bid >= 0
    THEN [err |-> "none", cell |-> [cell EXCEPT !.value = @ - s.bid], bid |-> s.bid,
          proposed |-> <<s.bid>>, before |-> cell]
    ELSE [err |-> "none", cell |-> [cell EXCEPT !.value = 0], bid |-> cell.value,
          proposed |-> <<s.bid>>, before |-> cell]

\* Trial.bid_cell: [err, cell (afterwards), bid (realized), proposed (what
\* suggest_bid returned, <<>> when it raised), before (the cell as it was)]
bid_cell(cell) ==
    LET s == suggest_bid(cell) IN
    IF s.err # "none"
    THEN [err |-> s.err, cell |-> cell, bid |-> 0, proposed |-> <<>>, before |-> cell]
    ELSE IF ~HasAttr(cell)
    THEN [err |-> "AttributeError", cell |-> cell, bid |-> 0,
          proposed |-> <<s.bid>>, before |-> cell]
    ELSE IF cell.value - s.bid >= 0
    THEN [err |-> "none", cell |-> [cell EXCEPT !.value = @ - s.bid], bid |-> s.bid,
          proposed |-> <<s.bid>>, before |-> cell]
    ELSE [err |-> "none", cell |-> cell, bid |-> 0,
          proposed |-> <<s.bid>>, before |-> cell]

\* mutant of skips: a cell may play itself
skips_no_self(g, i, j) ==
    g[i].kind = "DeadCell" \/ g[j].kind = "DeadCell"

\* mutant of skips: only cell1 is tested for DeadCell
skips_no_dead2(g, i, j) ==
    g[i].kind = "DeadCell" \/ i = j

\* the guard of Trial.play: the call returns at once
skips(g, i, j) ==
    g[i].kind = "DeadCell" \/ g[j].kind = "DeadCell" \/ i = j

\* the outcome of a Trial.play call
Outcome(g, err, branch, bids, calls) ==
    [grid |-> g, err |-> err, branch |-> branch, bids |-> bids, calls |-> calls]

\* the payoff branch of Trial.play and the two remember_play calls; g has
\* both bids deducted
settle(g, i, j, b1, b2) ==
    LET bid1 == b1.bid
        bid2 == b2.bid
        bids == <<b1, b2>>
        remembered(h) ==
            LET h1 == [h EXCEPT ![i] = remember_play(@, bid1, bid2)]
            IN  [h1 EXCEPT ![j] = remember_play(@, bid2, bid1)]
        calls == <<[slot |-> i, my_bid |-> bid1, other_bid |-> bid2],
                   [slot |-> j, my_bid |-> bid2, other_bid |-> bid1]>>
    IN
    IF bid1 * bid2 = 0
    THEN IF bid1 = 0 /\ bid2 = 0
         THEN LET f == fine_both_fraud(g[i], g[j])
                  h == [[g EXCEPT ![i] = f.cell1] EXCEPT ![j] = f.cell2]
              IN  Outcome(remembered(h), "none", "fine_both_fraud", bids, calls)
         ELSE IF bid1 = 0
         THEN LET f == reward_one_fraud(g[i], bid2)
                  h == [g EXCEPT ![i] = f.cell]
              IN  IF f.err # "none"
                  THEN Outcome(h, f.err, "reward_one_fraud", bids, <<>>)
                  ELSE Outcome(remembered(h), "none", "reward_one_fraud", bids, calls)
         ELSE LET f == reward_one_fraud(g[j], bid1)
                  h == [g EXCEPT ![j] = f.cell]
              IN  IF f.err # "none"
                  THEN Outcome(h, f.err, "reward_one_fraud", bids, <<>>)
                  ELSE Outcome(remembered(h), "none", "reward_one_fraud", bids, calls)
    ELSE LET f == reward_mutual(g[i], g[j], bid1, bid2)
             h == [[g EXCEPT ![i] = f.cell1] EXCEPT ![j] = f.cell2]
         IN  Outcome(remembered(h), "none", "reward_mutual", bids, calls)

\* mutant of Trial_play: every slot holds the one object that cell1 is, as
\* if the fill had been assigned and not copied
Trial_play_shared(g, i, j) ==
    IF skips(g, i, j) THEN Outcome(g, "none", "skip", <<>>, <<>>)
    ELSE LET b1 == bid_cell(g[i])
             g1 == [g EXCEPT ![i] = b1.cell]
         IN  IF b1.err # "none" THEN Outcome(g1, b1.err, "bid1", <<b1>>, <<>>)
             ELSE LET b2 == bid_cell(g1[j])
                      g2 == [g1 EXCEPT ![j] = b2.cell]
                  IN  IF b2.err # "none" THEN Outcome(g2, b2.err, "bid2", <<b1, b2>>, <<>>)
                      ELSE LET out == settle(g2, i, j, b1, b2)
                           IN  [out EXCEPT !.grid =
                                   [s \in DOMAIN g |->
                                       IF g[s] = g[i] THEN out.grid[i] ELSE out.grid[s]]]

\* Trial.play(cell1, cell2) on the cells in slots i and j of g
Trial_play(g, i, j) ==
    IF skips(g, i, j) THEN Outcome(g, "none", "skip", <<>>, <<>>)
    ELSE LET b1 == bid_cell(g[i])
             g1 == [g EXCEPT ![i] = b1.cell]
         IN  IF b1.err # "none" THEN Outcome(g1, b1.err, "bid1", <<b1>>, <<>>)
             ELSE LET b2 == bid_cell(g1[j])
                      g2 == [g1 EXCEPT ![j] = b2.cell]
                  IN  IF b2.err # "none" THEN Outcome(g2, b2.err, "bid2", <<b1, b2>>, <<>>)
                      ELSE settle(g2, i, j, b1, b2)

----------------------------------------------------------------------------
(* class Grid *)

Slots == 0 .. (height * width - 1)

\* mutant of Index: the remainder of the magnitude, as if % truncated
Index_abs(r, c) ==
    ((IF r < 0 THEN -r ELSE r) % height) * width + ((IF c < 0 THEN -c ELSE c) % width)

\* the index Grid.get and Grid.set compute; % is Python's on a positive modulus
Index(r, c) == (r % height) * width + (c % width)

\* Grid.get
get(r, c) == grid[Index(r, c)]

\* mutant of Offsets: the loops nested the other way round
Offsets_colmajor ==
    LET all == [k \in 1 .. 9 |-> <<((k - 1) % 3) - 1, ((k - 1) \div 3) - 1>>]
    IN  SelectSeq(all, LAMBDA o : ~(o[1] = 0 /\ o[2] = 0))

\* mutant of Offsets: the centre is not skipped
Offsets_with_centre ==
    [k \in 1 .. 9 |-> <<((k - 1) \div 3) - 1, ((k - 1) % 3) - 1>>]

\* the (r, c) pairs Grid.get_neighbours loops over, in order, centre skipped
Offsets ==
    LET all == [k \in 1 .. 9 |-> <<((k - 1) \div 3) - 1, ((k - 1) % 3) - 1>>]
    IN  SelectSeq(all, LAMBDA o : ~(o[1] = 0 /\ o[2] = 0))

\* Grid.get_neighbours, as the list of the slots whose cells it returns
get_neighbours(r, c) ==
    [k \in 1 .. Len(Offsets) |-> Index(r + Offsets[k][1], c + Offsets[k][2])]

\* the entries of a list of slots as a bag: slot -> number of entries
BagOf(list) ==
    [s \in Slots |-> Cardinality({k \in 1 .. Len(list) : list[k] = s})]

\* mutant of BorderSlots: the first loop stops one row short
BorderSlots_short(h, w) ==
    {i * w : i \in 0 .. (h - 2)} \cup {(i + 1) * w - 1 : i \in 0 .. (h - 2)}
    \cup {i : i \in 1 .. (w - 2)} \cup {h * w - 1 - i : i \in 1 .. (w - 2)}

\* the slots the two border loops of Grid.__init__ overwrite in an h x w grid
BorderSlots(h, w) ==
    {i * w : i \in 0 .. (h - 1)} \cup {(i + 1) * w - 1 : i \in 0 .. (h - 1)}
    \cup {i : i \in 1 .. (w - 2)} \cup {h * w - 1 - i : i \in 1 .. (w - 2)}

\* Grid.__init__(height, width, fill, border) for a fill that is a Cell:
\* [height, width, grid]; copy.deepcopy gives every slot a cell of its own
Grid_init(h, w, fill, border) ==
    LET hh == IF border THEN h + 2 ELSE h
        ww == IF border THEN w + 2 ELSE w
    IN  [height |-> hh,
         width |-> ww,
         grid |-> [s \in 0 .. (hh * ww - 1) |->
                     IF border /\ s \in BorderSlots(hh, ww) THEN DeadCell ELSE fill]]

\* Grid.set: the list afterwards
set(g, r, c, cell) == [g EXCEPT ![Index(r, c)] = cell]

----------------------------------------------------------------------------
(* The states a run starts in. *)

\* the cells a grid is populated with (Grid.set, as get_grid_from_file does)
Cells ==
    {DeadCell, TitForTat}
    \cup {AlwaysBid(v, b) : v \in 0 .. MaxInitValue, b \in 0 .. MaxBid}
    \cup {AlwaysFraud(v, DEFAULT_BID) : v \in 0 .. MaxInitValue}

NoTrial(g) ==
    [op |-> "none", c1 |-> 0, c2 |-> 0, pre |-> g,
     err |-> "none", branch |-> "skip", bids |-> <<>>, calls |-> <<>>]

\* the record of Trial.play(cell at i, cell at j) called on grid g
Played(g, i, j) ==
    LET out == Trial_play(g, i, j)
    IN  [op |-> "play", c1 |-> i, c2 |-> j, pre |-> g,
         err |-> out.err, branch |-> out.branch, bids |-> out.bids, calls |-> out.calls]

\* what is remembered of the construction
Started(h, w, fill, border, g) ==
    [height |-> h, width |-> w, fill |-> fill, border |-> border, grid |-> g]

\* Grid(h, w, DeadCell()) populated slot by slot, as get_grid_from_file does
InitGrid(h, w) ==
    /\ height = h
    /\ width = w
    /\ grid \in [0 .. (h * w - 1) -> Cells]
    /\ last = NoTrial(grid)
    /\ round_i = 0
    /\ row = 0
    /\ col = 0
    /\ todo = [s \in 0 .. (h * w - 1) |-> 0]
    /\ ncalls = 0
    /\ result = <<>>

\* a Trial and a one-row grid of cells, no driver running
Init ==
    /\ InitGrid(1, NumCells)
    /\ start = Started(1, NumCells, DeadCell, FALSE, Grid_init(1, NumCells, DeadCell, FALSE).grid)
    /\ pc = "idle"
    /\ num_rounds = 0

----------------------------------------------------------------------------
(* A caller pairing the cells itself. *)

\* trial.play(grid[i], grid[j]); an exception is left to the caller, who may go on
TrialCall(i, j) ==
    /\ pc = "idle"
    /\ LET out == Trial_play(grid, i, j)
       IN  /\ \A s \in Slots : out.grid[s].value <= MaxValue
           /\ grid' = out.grid
           /\ last' = Played(grid, i, j)
    /\ UNCHANGED <<height, width, start, driver>>

Next == \E i \in Slots, j \in Slots : TrialCall(i, j)

Spec == Init /\ [][Next]_vars

----------------------------------------------------------------------------
(* A user of class Grid: the constructor, then get, set and get_neighbours. *)

\* the grids constructed: <<height, width, border>>
GridArgs ==
    {<<1, 2, FALSE>>, <<2, 3, FALSE>>, <<1, 1, TRUE>>, <<1, 2, TRUE>>}

\* the fills of __main__ and get_grid_from_file: default-constructed live cells
ApiFills ==
    {AlwaysBid(INITIAL_CELL_VALUE, DEFAULT_BID), AlwaysFraud(INITIAL_CELL_VALUE, DEFAULT_BID)}

\* the cells a Grid user sets
SetCells == {DeadCell, TitForTat}

\* the row (column) arguments tried on a grid of n rows (columns): negative
\* ones, the ones of the grid, and one beyond
Coords(n) == (-n) .. n

\* the state after Grid(h, w, fill, border)
InitConstructed(h, w, fill, border) ==
    LET c == Grid_init(h, w, fill, border) IN
    /\ height = c.height
    /\ width = c.width
    /\ grid = c.grid
    /\ start = Started(h, w, fill, border, c.grid)
    /\ last = NoTrial(c.grid)
    /\ round_i = 0
    /\ row = 0
    /\ col = 0
    /\ todo = [s \in DOMAIN c.grid |-> 0]
    /\ ncalls = 0
    /\ result = <<>>

InitApi ==
    /\ \E a \in GridArgs, fill \in ApiFills : InitConstructed(a[1], a[2], fill, a[3])
    /\ pc = "grid"
    /\ num_rounds = 0

\* grid.get(r, c): the slot whose cell is returned, and the cell
GridGet(r, c) ==
    /\ pc = "grid"
    /\ last' = [op |-> "get", row |-> r, col |-> c, pre |-> grid,
                slot |-> Index(r, c), ret |-> get(r, c)]
    /\ UNCHANGED <<height, width, grid, start, driver>>

\* grid.set(r, c, cell)
GridSet(r, c, cell) ==
    /\ pc = "grid"
    /\ ncalls < MaxSets
    /\ grid' = set(grid, r, c, cell)
    /\ last' = [op |-> "set", row |-> r, col |-> c, pre |-> grid, cell |-> cell]
    /\ ncalls' = ncalls + 1
    /\ UNCHANGED <<height, width, start, pc, num_rounds, round_i, row, col, todo, result>>

\* grid.get_neighbours(r, c): the list returned, as slots
GridNeighbours(r, c) ==
    /\ pc = "grid"
    /\ last' = [op |-> "get_neighbours", row |-> r, col |-> c, pre |-> grid,
                ret |-> get_neighbours(r, c)]
    /\ UNCHANGED <<height, width, grid, start, driver>>

NextApi ==
    \E r \in Coords(height), c \in Coords(width) :
        \/ GridGet(r, c)
        \/ \E cell \in SetCells : GridSet(r, c, cell)
        \/ GridNeighbours(r, c)

SpecApi == InitApi /\ [][NextApi]_vars

----------------------------------------------------------------------------
(* The driver play(grid, trial, num_rounds, result_getter). *)

\* the grids the driver is run on: <<height, width>>
RunDims == {<<1, 2>>, <<2, 1>>}

InitRun ==
    /\ \E d \in RunDims : InitGrid(d[1], d[2]) /\ start = Started(d[1], d[2], DeadCell, FALSE, grid)
    /\ pc = "traverse"
    /\ num_rounds \in 0 .. MaxRounds

\* traverse_grid calls play_with_neighbours(cell, row, col): get_neighbours,
\* then random.shuffle.  Every order of the list is a possible shuffle; the
\* order is resolved entry by entry in PlayNeighbour, so what is kept is the
\* bag of entries not yet iterated.
Visit ==
    /\ pc = "traverse"
    /\ round_i < num_rounds
    /\ todo' = BagOf(get_neighbours(row, col))
    /\ pc' = "visit"
    /\ UNCHANGED <<height, width, grid, start, last, num_rounds, round_i, row, col, ncalls, result>>

\* the loops of play and traverse_grid move on to the next slot
Advance ==
    IF col + 1 < width
    THEN col' = col + 1 /\ UNCHANGED <<row, round_i>>
    ELSE /\ col' = 0
         /\ IF row + 1 < height
            THEN row' = row + 1 /\ UNCHANGED round_i
            ELSE row' = 0 /\ round_i' = round_i + 1

\* "for n in neighbours: trial.play(cell, n)": the next entry of the shuffled list
PlayNeighbour(n) ==
    /\ pc = "visit"
    /\ todo[n] > 0
    /\ LET out == Trial_play(grid, Index(row, col), n)
           left == [todo EXCEPT ![n] = @ - 1]
       IN  /\ grid' = out.grid
           /\ last' = Played(grid, Index(row, col), n)
           /\ ncalls' = ncalls + 1
           /\ todo' = left
           /\ IF out.err # "none"
              THEN pc' = "raised" /\ UNCHANGED <<row, col, round_i>>
              ELSE IF \A s \in Slots : left[s] = 0
              THEN pc' = "traverse" /\ Advance
              ELSE pc' = "visit" /\ UNCHANGED <<row, col, round_i>>
    /\ UNCHANGED <<height, width, start, num_rounds, result>>

\* "return result_getter(grid)" with the getter of __main__,
\* lambda grid: grid.get(goal_row, goal_col).value
Return(goal_row, goal_col) ==
    /\ pc = "traverse"
    /\ round_i = num_rounds
    /\ IF HasAttr(get(goal_row, goal_col))
       THEN pc' = "returned" /\ result' = <<get(goal_row, goal_col).value>>
       ELSE pc' = "raised" /\ result' = result
    /\ UNCHANGED <<height, width, grid, start, last, num_rounds, round_i, row, col, todo, ncalls>>

NextRun ==
    \/ Visit
    \/ \E n \in Slots : PlayNeighbour(n)
    \/ \E goal_row \in 0 .. (height - 1), goal_col \in 0 .. (width - 1) :
          Return(goal_row, goal_col)

SpecRun == InitRun /\ [][NextRun]_vars

\* the driver on a uniformly filled grid: <<height, width, border>>
UniformArgs ==
    {<<1, 2, FALSE>>, <<2, 2, FALSE>>, <<3, 3, FALSE>>, <<1, 1, TRUE>>, <<1, 2, TRUE>>}

\* the fills: the two strategies that are constructed whole; AlwaysBid with
\* nothing or with the largest initial value, so that every bid is met both
\* by a cell that can afford it and by one that cannot
UniformFills ==
    {AlwaysBid(v, b) : v \in {0, MaxInitValue}, b \in 0 .. MaxBid}
    \cup {AlwaysFraud(v, DEFAULT_BID) : v \in 0 .. MaxInitValue}

\* play(Grid(h, w, fill, border), Trial(), MaxRounds, getter)
InitUniform ==
    /\ \E a \in UniformArgs, fill \in UniformFills : InitConstructed(a[1], a[2], fill, a[3])
    /\ pc = "traverse"
    /\ num_rounds = MaxRounds

SpecUniform == InitUniform /\ [][NextRun]_vars

\* play(Grid(1, 1, AlwaysBid(), True), Trial(), 5, getter): a 3 x 3 grid
\* whose centre is AlwaysBid(value=10, bid=1)
InitScenario ==
    /\ InitConstructed(1, 1, AlwaysBid(INITIAL_CELL_VALUE, DEFAULT_BID), TRUE)
    /\ pc = "traverse"
    /\ num_rounds = ScenarioRounds

SpecScenario == InitScenario /\ [][NextRun]_vars

----------------------------------------------------------------------------
(* Properties.  They read the latest Trial.play call from last: the cells  *)
(* it was given (c1, c2), the grid before it (pre) and what it did.        *)

\* the latest step was a Trial.play call that passed the guard
Engaged == last.op = "play" /\ last.branch # "skip"

\* the latest call paired a cell of kind k1 with a distinct cell of kind k2,
\* in either order; a is the slot of the k1 cell, b of the k2 cell
Paired(a, b, k1, k2) ==
    /\ last.op = "play"
    /\ {a, b} = {last.c1, last.c2}
    /\ a # b
    /\ last.pre[a].kind = k1
    /\ last.pre[b].kind = k2

\* C1: no cell's value is negative, whatever trials were played in whatever
\* order on cells that started with value >= 0 and bid >= 0.
C1_ValueNeverNegative ==
    \A s \in Slots : HasAttr(grid[s]) => grid[s].value >= 0

\* C1 witness: a cell at value 0 was refused a bid it could not afford and
\* was then fined for mutual fraud, and its value is 0.
C1_Witness ==
    /\ Engaged
    /\ last.branch = "fine_both_fraud"
    /\ last.bids[1].proposed # <<>>
    /\ last.bids[1].proposed[1] > last.bids[1].before.value
    /\ last.pre[last.c1].value = 0
    /\ grid[last.c1].value = 0

\* C2 (the claim as stated): a trial between an AlwaysBid cell with bid 1 and
\* value >= 1 and an AlwaysFraud cell completes, leaves the AlwaysBid cell's
\* value 1 higher and the AlwaysFraud cell's value unchanged, in either order.
C2_OneSidedFraud ==
    \A a \in Slots, b \in Slots :
        ( /\ Paired(a, b, "AlwaysBid", "AlwaysFraud")
          /\ last.pre[a].bid = 1
          /\ last.pre[a].value >= 1 )
        => /\ last.err = "none"
           /\ grid[a].value = last.pre[a].value + 1
           /\ grid[b].value = last.pre[b].value

\* C3 (the claim as stated): after a trial between two distinct AlwaysBid
\* cells that can both afford their bids, each cell's value is higher by
\* exactly the opponent's bid.
C3_MutualBidAnyBids ==
    \A a \in Slots, b \in Slots :
        ( /\ Paired(a, b, "AlwaysBid", "AlwaysBid")
          /\ last.pre[a].value >= last.pre[a].bid
          /\ last.pre[b].value >= last.pre[b].bid )
        => /\ last.err = "none"
           /\ grid[a].value = last.pre[a].value + last.pre[b].bid
           /\ grid[b].value = last.pre[b].value + last.pre[a].bid

\* C3 (amended): a trial between two distinct AlwaysBid cells with bids > 0
\* that can both afford them first deducts each cell's own bid, then adds
\* bid1 + bid2 to both (reward_mutual), so each cell's value ends higher by
\* exactly the opponent's bid; with bid 1 on both sides each nets +1.
C3_MutualBid ==
    ( /\ last.op = "play"
      /\ last.c1 # last.c2
      /\ last.pre[last.c1].kind = "AlwaysBid"
      /\ last.pre[last.c2].kind = "AlwaysBid"
      /\ last.pre[last.c1].bid > 0
      /\ last.pre[last.c2].bid > 0
      /\ last.pre[last.c1].value >= last.pre[last.c1].bid
      /\ last.pre[last.c2].value >= last.pre[last.c2].bid )
    => LET v1 == last.pre[last.c1].value
           v2 == last.pre[last.c2].value
           b1 == last.pre[last.c1].bid
           b2 == last.pre[last.c2].bid
       IN  /\ last.err = "none"
           /\ last.branch = "reward_mutual"
           /\ Len(last.bids) = 2
           /\ last.bids[1].bid = b1 /\ last.bids[1].cell.value = v1 - b1
           /\ last.bids[2].bid = b2 /\ last.bids[2].cell.value = v2 - b2
           /\ grid[last.c1].value = (v1 - b1) + (b1 + b2)
           /\ grid[last.c2].value = (v2 - b2) + (b1 + b2)
           /\ grid[last.c1].value = v1 + b2
           /\ grid[last.c2].value = v2 + b1
           /\ (b1 = 1 /\ b2 = 1) =>
                 (grid[last.c1].value = v1 + 1 /\ grid[last.c2].value = v2 + 1)

\* C3 witness: two AlwaysBid cells with different non-zero bids played.
C3_Witness ==
    /\ Engaged
    /\ last.branch = "reward_mutual"
    /\ last.pre[last.c1].kind = "AlwaysBid"
    /\ last.pre[last.c2].kind = "AlwaysBid"
    /\ last.pre[last.c1].bid = 1
    /\ last.pre[last.c2].bid = 2
    /\ grid[last.c1].value = last.pre[last.c1].value + 2

\* C4: a trial between two distinct AlwaysFraud cells lowers each cell's
\* value by exactly 1, except that a cell at 0 stays at 0: max(value - 1, 0).
C4_MutualFraud ==
    \A a \in Slots, b \in Slots :
        Paired(a, b, "AlwaysFraud", "AlwaysFraud")
        => /\ last.err = "none"
           /\ last.branch = "fine_both_fraud"
           /\ grid[a].value = (IF last.pre[a].value >= 1 THEN last.pre[a].value - 1 ELSE 0)
           /\ grid[b].value = (IF last.pre[b].value >= 1 THEN last.pre[b].value - 1 ELSE 0)

\* C4 witness: an AlwaysFraud cell at 0 played an AlwaysFraud cell above 0.
C4_Witness ==
    \E a \in Slots, b \in Slots :
        /\ Paired(a, b, "AlwaysFraud", "AlwaysFraud")
        /\ last.pre[a].value = 0 /\ grid[a].value = 0
        /\ last.pre[b].value = 2 /\ grid[b].value = 1

\* C5 (the claim as stated): a TitForTat cell that enters a trial proposes a
\* bid: its bid in its first trial (nothing remembered yet) and whenever the
\* opponent's bid it remembers is non-zero, 0 otherwise.
C5_TitForTatProposes ==
    \A k \in 1 .. Len(last.bids) :
        last.bids[k].before.kind = "TitForTat"
        => /\ last.bids[k].err = "none"
           /\ last.bids[k].proposed # <<>>
           /\ (last.bids[k].before.last_other_bid = 0) = (last.bids[k].proposed = <<0>>)

\* C6: in every trial, for every cell whose strategy proposed a bid: when
\* value - bid >= 0 the realized bid is the proposed bid and is deducted;
\* otherwise the realized bid is 0, nothing is deducted and bid_cell raises
\* nothing; the realized bid never exceeds the value the cell held; and the
\* cell's strategy proposes afterwards what it proposed before.
C6_RealizedBid ==
    \A k \in 1 .. Len(last.bids) :
        LET b == last.bids[k] IN
        (b.proposed # <<>> /\ HasAttr(b.before))
        => LET p == b.proposed[1]
               v == b.before.value
           IN  /\ b.err = "none"
               /\ (v - p >= 0) => (b.bid = p /\ b.cell = [b.before EXCEPT !.value = v - p])
               /\ (v - p < 0) => (b.bid = 0 /\ b.cell = b.before)
               /\ b.bid <= v
               /\ suggest_bid(b.cell) = [err |-> "none", bid |-> p]

\* C6 witness: a cell proposed more than it held, its realized bid was 0 and
\* its value was left alone.
C6_Witness ==
    /\ Engaged
    /\ \E k \in 1 .. Len(last.bids) :
          /\ last.bids[k].proposed = <<2>>
          /\ last.bids[k].before.value = 1
          /\ last.bids[k].bid = 0
          /\ last.bids[k].cell.value = 1

\* C7 (the claim as stated): every trial between two distinct live cells
\* that reaches a payoff branch ends with remember_play(bid1, bid2) on cell1
\* and remember_play(bid2, bid1) on cell2, after the payoff.
C7_RemembersBoth ==
    ( /\ Engaged
      /\ last.branch \in {"reward_mutual", "reward_one_fraud", "fine_both_fraud"} )
    => /\ last.err = "none"
       /\ last.calls =
             <<[slot |-> last.c1, my_bid |-> last.bids[1].bid, other_bid |-> last.bids[2].bid],
               [slot |-> last.c2, my_bid |-> last.bids[2].bid, other_bid |-> last.bids[1].bid]>>

\* C8: Trial.play(c, c) does nothing: no bid is proposed or deducted, no
\* payoff is applied, remember_play is not called, nothing is raised, and
\* the value and memory of c (and of every cell) are what they were.
C8_SelfPlayNoOp ==
    (last.op = "play" /\ last.c1 = last.c2)
    => /\ grid = last.pre
       /\ last.bids = <<>>
       /\ last.calls = <<>>
       /\ last.branch = "skip"
       /\ last.err = "none"

\* C8 witness: an AlwaysBid cell that could afford its non-zero bid was
\* played against itself.
C8_Witness ==
    /\ last.op = "play"
    /\ last.c1 = last.c2
    /\ last.pre[last.c1].kind = "AlwaysBid"
    /\ last.pre[last.c1].bid > 0
    /\ last.pre[last.c1].value >= 2 * last.pre[last.c1].bid

\* C9: every DeadCell has value 0, no remember_play call was ever made on a
\* DeadCell, and a trial with a DeadCell on either side changes nothing of
\* the other cell (nor of any cell) and calls nothing.
C9_DeadCellInert ==
    /\ \A s \in Slots : grid[s].kind = "DeadCell" => grid[s].value = 0
    /\ \A k \in 1 .. Len(last.calls) : last.pre[last.calls[k].slot].kind # "DeadCell"
    /\ ( /\ last.op = "play"
         /\ (last.pre[last.c1].kind = "DeadCell" \/ last.pre[last.c2].kind = "DeadCell") )
       => /\ grid = last.pre
          /\ last.bids = <<>>
          /\ last.calls = <<>>
          /\ last.err = "none"

\* C9 witness: an AlwaysBid cell that could afford its non-zero bid was
\* played, as cell1, against a DeadCell.
C9_Witness ==
    /\ last.op = "play"
    /\ last.pre[last.c1].kind = "AlwaysBid"
    /\ last.pre[last.c1].bid > 0
    /\ last.pre[last.c1].value >= last.pre[last.c1].bid
    /\ last.pre[last.c2].kind = "DeadCell"
    /\ grid[last.c1].value = last.pre[last.c1].value

\* C10 (the claim as stated): play on a well-formed grid (here: one without
\* TitForTat cells) never stops short, and when it has returned it has
\* issued 8 trial.play calls for every slot in every round.
C10_RunsAllRounds ==
    (\A s \in Slots : grid[s].kind # "TitForTat")
    => /\ pc # "raised"
       /\ pc = "returned" =>
             /\ ncalls = 8 * height * width * num_rounds
             /\ round_i = num_rounds
             /\ result # <<>>

\* the residue of x modulo n, stated without %
Wrap(x, n) == CHOOSE k \in 0 .. (n - 1) : \E q \in -4 .. 4 : x = q * n + k

\* the slot of row r, column c under wraparound
WrapSlot(r, c) == Wrap(r, height) * width + Wrap(c, width)

\* C12: for any row and col, negative or beyond the grid, get(row, col)
\* returns the cell of slot (row mod height, col mod width), the same cell as
\* get(row + height, col + width); set(row, col, x) writes exactly that slot,
\* and a get at any congruent coordinates then returns x.
C12_Wraparound ==
    /\ last.op = "get" =>
          /\ last.slot = WrapSlot(last.row, last.col)
          /\ last.slot = Index(last.row + height, last.col + width)
          /\ last.slot \in Slots
          /\ last.ret = grid[WrapSlot(last.row, last.col)]
    /\ last.op = "set" =>
          /\ \A s \in Slots :
                grid[s] = IF s = WrapSlot(last.row, last.col) THEN last.cell ELSE last.pre[s]
          /\ \A i \in -1 .. 1, j \in -1 .. 1 :
                get(last.row + i * height, last.col + j * width) = last.cell

\* C12 witness: after a set put a new cell into the grid, a get with a
\* negative row and a column beyond the grid returned that cell.
C12_Witness ==
    /\ last.op = "get"
    /\ last.row < 0
    /\ last.col >= width
    /\ height > 1
    /\ grid # start.grid
    /\ last.ret = TitForTat
    /\ start.grid[last.slot] # TitForTat

\* C13: after Grid(h, w, fill, border=True) with a live fill the grid is
\* (h+2) x (w+2), every slot of the first and last row and column holds a
\* DeadCell, every interior slot holds a copy of fill, and every interior
\* cell in the first or last interior row or column has a DeadCell among its
\* neighbours.
C13_BorderedGrid ==
    start.border =>
        /\ height = start.height + 2
        /\ width = start.width + 2
        /\ DOMAIN start.grid = 0 .. ((start.height + 2) * (start.width + 2) - 1)
        /\ \A r \in 0 .. (height - 1), c \in 0 .. (width - 1) :
              LET onRing == r = 0 \/ r = height - 1 \/ c = 0 \/ c = width - 1
                  edge == r \in {1, height - 2} \/ c \in {1, width - 2}
                  nb == get_neighbours(r, c)
              IN  /\ onRing => start.grid[r * width + c] = DeadCell
                  /\ ~onRing => start.grid[r * width + c] = start.fill
                  /\ (~onRing /\ edge) =>
                        \E k \in 1 .. Len(nb) : start.grid[nb[k]].kind = "DeadCell"

\* C13 witness: a bordered grid with a 1 x 2 interior of live cells was
\* constructed.
C13_Witness ==
    /\ start.border
    /\ start.height = 1
    /\ start.width = 2
    /\ start.fill.kind # "DeadCell"
    /\ grid = start.grid
    /\ grid[width + 1] = start.fill
    /\ grid[width + 2] = start.fill

\* the offsets of the 3 x 3 block in row-major order, centre left out
BlockOffsets ==
    << <<-1, -1>>, <<-1, 0>>, <<-1, 1>>, <<0, -1>>, <<0, 1>>, <<1, -1>>, <<1, 0>>, <<1, 1>> >>

\* C17: get_neighbours(row, col) returns exactly 8 entries, the cells at
\* offsets (-1,-1), (-1,0), (-1,1), (0,-1), (0,1), (1,-1), (1,0), (1,1) in
\* that order under wraparound; the centre offset is not among them, and on a
\* grid at least 3 high and 3 wide the entries are 8 different cells, none the
\* centre cell.
C17_Neighbours ==
    last.op = "get_neighbours" =>
        /\ Len(last.ret) = 8
        /\ \A k \in 1 .. 8 :
              last.ret[k] = WrapSlot(last.row + BlockOffsets[k][1], last.col + BlockOffsets[k][2])
        /\ (height >= 3 /\ width >= 3) =>
              /\ \A k \in 1 .. 8 : last.ret[k] # WrapSlot(last.row, last.col)
              /\ \A k \in 1 .. 8, m \in 1 .. 8 : k # m => last.ret[k] # last.ret[m]

\* C17 witness: on a grid 1 high and 2 wide, with a negative row argument,
\* the list returned held the centre cell itself and a repeated entry.
C17_Witness ==
    /\ last.op = "get_neighbours"
    /\ height = 1
    /\ width = 2
    /\ last.row < 0
    /\ \E k \in 1 .. 8 : last.ret[k] = WrapSlot(last.row, last.col)
    /\ \E k \in 1 .. 8, m \in 1 .. 8 : k # m /\ last.ret[k] = last.ret[m]

\* C14: in the scenario (3 x 3 bordered grid, centre AlwaysBid(value=10,
\* bid=1), ScenarioRounds = 5 rounds) the centre's value is 10 in every state whatever the
\* shuffles, nothing is raised, and play returns after 5 rounds with the
\* value of the queried cell: 10 for the centre (0 for a border cell).
C14_Scenario ==
    /\ get(1, 1).value = 10
    /\ pc # "raised"
    /\ pc = "returned" =>
          /\ round_i = ScenarioRounds
          /\ result \in {<<get(1, 1).value>>, <<0>>}

\* C14 witness: play returned 10 after 5 rounds of 72 trial.play calls each.
C14_Witness ==
    /\ pc = "returned"
    /\ round_i = ScenarioRounds
    /\ ncalls = ScenarioRounds * 72
    /\ get(1, 1).kind = "AlwaysBid"
    /\ result = <<10>>

\* a proposal that bid_cell refused: AlwaysBid with bid above value
Short(cell) == cell.kind = "AlwaysBid" /\ cell.bid > cell.value

\* C15: a trial in which a cell's proposed bid exceeds its value goes exactly
\* as the same trial with that cell proposing 0 by strategy (an AlwaysFraud
\* cell of the same value in its place), once its bid has been asked for: nothing is deducted from it, the
\* same branch is taken with the same realized bids, the same values result,
\* the same exception (if any) is raised, and remember_play gets the same
\* arguments, 0 for that cell's bid.
C15_ShortfallIsFraud ==
    \A p \in Slots :
        ( /\ Engaged
          /\ p \in {last.c1, last.c2}
          /\ (IF p = last.c1 THEN 1 ELSE 2) <= Len(last.bids)
          /\ Short(last.pre[p]) )
        => LET alt == [last.pre EXCEPT ![p] = AlwaysFraud(@.value, @.bid)]
               out == Trial_play(alt, last.c1, last.c2)
               k == IF p = last.c1 THEN 1 ELSE 2
           IN  /\ last.bids[k].bid = 0
               /\ last.bids[k].cell.value = last.pre[p].value
               /\ out.branch = last.branch
               /\ out.err = last.err
               /\ out.calls = last.calls
               /\ Len(out.bids) = Len(last.bids)
               /\ \A m \in 1 .. Len(last.bids) : out.bids[m].bid = last.bids[m].bid
               /\ \A s \in Slots : out.grid[s].value = grid[s].value
               /\ \A m \in 1 .. Len(last.calls) :
                     last.calls[m].slot # p => last.calls[m].other_bid = 0

\* C15 witness: an AlwaysBid cell that could not afford its bid met a cell
\* that bid, and one that did not.
C15_Witness ==
    /\ Engaged
    /\ Short(last.pre[last.c1])
    /\ last.pre[last.c2].kind = "AlwaysFraud"
    /\ last.pre[last.c2].value > 0
    /\ last.branch = "fine_both_fraud"
    /\ last.calls # <<>>

\* C16: a Trial.play between the cells of two slots changes nothing but the
\* value and the remembered opponent bid of those two cells: every other
\* slot holds the cell it held, with its value and memory, the two cells
\* keep their strategy and bid, and the grid keeps the height and width it
\* was constructed with. Cells of a uniform fill are separate copies: the
\* update of one reaches no other.
C16_Frame ==
    /\ height = start.height + (IF start.border THEN 2 ELSE 0)
    /\ width = start.width + (IF start.border THEN 2 ELSE 0)
    /\ DOMAIN grid = Slots
    /\ last.op = "play" =>
          /\ DOMAIN last.pre = Slots
          /\ \A s \in Slots \ {last.c1, last.c2} : grid[s] = last.pre[s]
          /\ \A s \in {last.c1, last.c2} :
                /\ grid[s].kind = last.pre[s].kind
                /\ grid[s].bid = last.pre[s].bid
                /\ grid[s].attrs = last.pre[s].attrs

\* C16 witness: on a 3 x 3 uniform fill a trial changed the value of both its
\* cells while seven equal cells stood by.
C16_Witness ==
    /\ Engaged
    /\ height = 3 /\ width = 3 /\ ~start.border
    /\ \A s \in Slots : last.pre[s] = start.fill
    /\ grid[last.c1].value # last.pre[last.c1].value
    /\ grid[last.c2].value # last.pre[last.c2].value
    /\ Cardinality({s \in Slots : grid[s] = start.fill}) = 7

RECURSIVE SumSeq(_)
\* the sum of a sequence of integers
SumSeq(q) == IF q = <<>> THEN 0 ELSE Head(q) + SumSeq(Tail(q))

\* the number of entries of slot t in the neighbour list of slot s
Entries(s, t) ==
    LET nb == get_neighbours(s \div width, s % width)
    IN  Cardinality({k \in 1 .. Len(nb) : nb[k] = t})

\* the trials of one round that slots s and t play together when both hold
\* live cells: those of the visit of s and those of the visit of t
TrialsBetween(g, s, t) ==
    IF s = t \/ g[s].kind = "DeadCell" \/ g[t].kind = "DeadCell"
    THEN 0
    ELSE Entries(s, t) + Entries(t, s)

\* what one round adds to the cell of slot s when every trial is a mutual
\* bid: the opponent's bid, once per trial
RoundGain(g, s) ==
    SumSeq([k \in 1 .. (height * width) |-> TrialsBetween(g, s, k - 1) * g[k - 1].bid])

\* every live cell is AlwaysBid with a positive bid it can afford
AllBidders(g) ==
    \A s \in Slots :
        \/ g[s].kind = "DeadCell"
        \/ g[s].kind = "AlwaysBid" /\ g[s].bid > 0 /\ g[s].value >= g[s].bid

HasLiveNeighbour(g, s) == \E t \in Slots : TrialsBetween(g, s, t) > 0

\* every live cell is AlwaysFraud with a value that is not negative
AllFraudsters(g) ==
    \A s \in Slots :
        \/ g[s].kind = "DeadCell"
        \/ g[s].kind = "AlwaysFraud" /\ g[s].value >= 0

\* C19: in a grid whose live cells are all AlwaysFraud with initial value
\* v >= 0, no cell's value ever increases (or falls below 0), and every live
\* cell with another live cell among its neighbours has lost at least one
\* unit per completed round until it is at 0: it is at 0 once v rounds are
\* done and in every later state.
C19_FraudstersDecay ==
    AllFraudsters(start.grid) =>
        /\ pc # "raised"
        /\ \A s \in Slots :
              /\ grid[s].value <= last.pre[s].value
              /\ grid[s].value <= start.grid[s].value
              /\ grid[s].value >= 0
              /\ HasLiveNeighbour(start.grid, s) =>
                    /\ grid[s].value + round_i <= start.grid[s].value \/ grid[s].value = 0
                    /\ round_i >= start.grid[s].value => grid[s].value = 0

\* C19 witness: the two AlwaysFraud cells inside a border started at 2 and
\* are at 0 when play returns; two rounds were needed and played.
C19_Witness ==
    /\ AllFraudsters(start.grid)
    /\ start.border /\ start.width = 2
    /\ start.fill.value = 2
    /\ pc = "returned"
    /\ round_i = start.fill.value
    /\ \E s \in Slots : HasLiveNeighbour(start.grid, s)
    /\ \A s \in Slots : HasLiveNeighbour(start.grid, s) => grid[s].value = 0

\* the construction is a uniform AlwaysBid fill, affordable positive bid, of
\* a grid without border that is at least 3 x 3
WideBidders ==
    /\ ~start.border
    /\ height >= 3 /\ width >= 3
    /\ start.fill.kind = "AlwaysBid"
    /\ start.fill.bid > 0
    /\ start.fill.value >= start.fill.bid

\* C20: on a non-bordered grid at least 3 x 3 every two adjacent cells are in
\* each other's neighbour list once, so they play exactly two trials per
\* round, and every cell takes part in 16 trials per round; filled with
\* AlwaysBid(bid=b > 0, value >= b), every cell's value at the end of round
\* k is its initial value plus 16 * b * k, after 8 * height * width * k calls
\* (stated of the states between two rounds).
C20_SixteenPerRound ==
    (WideBidders /\ pc \in {"traverse", "returned"} /\ row = 0 /\ col = 0) =>
        /\ \A s, t \in Slots :
              (s # t /\ Entries(s, t) > 0) =>
                  /\ Entries(s, t) = 1 /\ Entries(t, s) = 1
                  /\ TrialsBetween(start.grid, s, t) = 2
        /\ \A s \in Slots :
              /\ Entries(s, s) = 0
              /\ SumSeq([k \in 1 .. (height * width) |-> TrialsBetween(start.grid, s, k - 1)]) = 16
        /\ ncalls = 8 * height * width * round_i
        /\ \A s \in Slots :
              grid[s].value = start.fill.value + 16 * start.fill.bid * round_i

\* C20 witness: a 3 x 3 fill of AlwaysBid(bid=2, value=2) has played
\* MaxRounds rounds and every cell has gained 32 per round.
C20_Witness ==
    /\ WideBidders
    /\ pc = "returned"
    /\ round_i = MaxRounds
    /\ start.fill.bid = 2
    /\ \A s \in Slots : grid[s].value = start.fill.value + 32 * MaxRounds
    /\ result = <<start.fill.value + 32 * MaxRounds>>

=============================================================================
